---- MODULE Spec2Model ----
(***************************************************************************)
(* A model of src/bus/bus.py: the live fleet-state cache of class Bus      *)
(* (refresh_state / _load_state / all_buses / buses_on_route), run by      *)
(* several threads, and the static schedule catalog (BusRoute, BusService, *)
(* BusTrip, BusStop).                                                      *)
(***************************************************************************)
EXTENDS Integers, Sequences, FiniteSets, TLC

(***************************************************************************)
(* Bounds of the model.                                                    *)
(***************************************************************************)
NumThreads == 2
MaxCalls == 2
TickStep == 30
MaxTime == 60

(***************************************************************************)
(* Program constants.                                                      *)
(***************************************************************************)
\* bus.py:305  "if delta.total_seconds() < 60"
StalenessWindow == 60
\* bus.py:229  "_timestamp = None"
NoTime == -1
\* bus.py:230  "_lock = threading.Lock()": the lock is free
NoThread == 0

Threads == 1..NumThreads
\* The time that can pass between two readings of the clock
Elapsed == {0, TickStep, 2 * TickStep}

(***************************************************************************)
(* The live feed: a document of <bus lat lon head route stop next code>    *)
(* records.  An attribute that float()/int() reads is a number, is absent  *)
(* (bus.get returns None) or is text that is no number.                    *)
(***************************************************************************)
Num(v) == [kind |-> "num", v |-> v]
Missing == [kind |-> "missing", v |-> 0]
Malformed == [kind |-> "malformed", v |-> 0]

Rec(lat, lon, head, route, stop, next, code) ==
    [lat |-> lat, lon |-> lon, head |-> head, route |-> route,
     stop |-> stop, next |-> next, code |-> code]

FeedRemote ==
    << Rec(Num(64), Num(-21), Num(90), "1", "s1", "s2", Num(6)),
       Rec(Num(65), Num(-22), Num(180), "2", "s2", "s3", Num(2)) >>
FeedLocal ==
    << Rec(Num(63), Num(-20), Num(0), "2", "s3", "s1", Num(7)),
       Rec(Num(64), Num(-21), Num(270), "2", "s1", "s2", Num(3)) >>
FeedBadRecord ==
    << Rec(Num(64), Num(-21), Num(90), "1", "s1", "s2", Num(6)),
       Rec(Malformed, Num(-22), Num(180), "2", "s2", "s3", Num(2)),
       Rec(Num(66), Num(-23), Num(45), "2", "s3", "s1", Num(5)) >>

\* What requests.get(_STATUS_URL) can deliver.
RemoteFeeds == {FeedRemote, FeedBadRecord}
\* What resources/status.xml can hold.
LocalFeeds == {FeedLocal}
\* The route ids a caller asks buses_on_route() about; "1" has buses in the
\* remote feeds and none in resources/status.xml.
QueryRoutes == {"1"}

(***************************************************************************)
(* float(bus.get(..)) / int(bus.get(..)) and the asserts of Bus.__init__:  *)
(* the exception that building a Bus from the record raises, or "none".    *)
(***************************************************************************)
ConvError(x) ==
    IF x.kind = "missing" THEN "TypeError"
    ELSE IF x.kind = "malformed" THEN "ValueError"
    ELSE "none"

RecordError(rec) ==
    IF ConvError(rec.lat) # "none" THEN ConvError(rec.lat)
    ELSE IF ConvError(rec.lon) # "none" THEN ConvError(rec.lon)
    ELSE IF ConvError(rec.head) # "none" THEN ConvError(rec.head)
    ELSE IF ConvError(rec.code) # "none" THEN ConvError(rec.code)
    ELSE IF ~(-90 <= rec.lat.v /\ rec.lat.v <= 90) THEN "AssertionError"
    ELSE IF ~(-180 <= rec.lon.v /\ rec.lon.v <= 180) THEN "AssertionError"
    ELSE "none"

BusOf(rec) ==
    [route_id |-> rec.route, stop |-> rec.stop, next_stop |-> rec.next,
     location |-> <<rec.lat.v, rec.lon.v>>, heading |-> rec.head.v,
     code |-> rec.code.v]

(***************************************************************************)
(* collections.defaultdict(list)                                           *)
(***************************************************************************)
EmptyDict == [k \in {} |-> <<>>]
DictPut(d, k, v) == [x \in (DOMAIN d) \cup {k} |-> IF x = k THEN v ELSE d[x]]
\* d[k] of a defaultdict(list): a missing key is inserted with an empty list
DefaultGet(d, k) == IF k \in DOMAIN d THEN d[k] ELSE <<>>
DefaultTouch(d, k) == IF k \in DOMAIN d THEN d ELSE DictPut(d, k, <<>>)

\* Bus._all_buses = None  (bus.py:228)
NoneBuses == [none |-> TRUE, default |-> FALSE, items |-> EmptyDict]
\* Bus._all_buses = defaultdict(list)  (bus.py:275)
FreshBuses == [none |-> FALSE, default |-> TRUE, items |-> EmptyDict]
\* d[k] raises KeyError when d is a plain dict without the key k
KeyMissing(b, k) == ~b.default /\ k \notin DOMAIN b.items

\* The mapping that a complete parse of a feed builds (the loop of _load_state).
RECURSIVE ParseFeed(_, _)
ParseFeed(feed, d) ==
    IF feed = <<>> THEN d
    ELSE LET b == BusOf(Head(feed)) IN
         ParseFeed(Tail(feed),
                   DictPut(d, b.route_id, Append(DefaultGet(d, b.route_id), b)))

(***************************************************************************)
(* The schedule catalog.  Text is a sequence of one-character strings, so  *)
(* that slicing and int() are computed as Python computes them.            *)
(***************************************************************************)
Min(a, b) == IF a <= b THEN a ELSE b

\* s[a:b] for 0 <= a <= b
Slice(s, a, b) == SubSeq(s, a + 1, Min(b, Len(s)))

DigitChars == <<"0", "1", "2", "3", "4", "5", "6", "7", "8", "9">>
IsDigit(c) == \E i \in 1..10 : DigitChars[i] = c
DigitVal(c) == (CHOOSE i \in 1..10 : DigitChars[i] = c) - 1

RECURSIVE DigitsValue(_)
DigitsValue(s) ==
    IF s = <<>> THEN 0
    ELSE 10 * DigitsValue(SubSeq(s, 1, Len(s) - 1)) + DigitVal(s[Len(s)])

AllDigits(s) == s # <<>> /\ \A i \in 1..Len(s) : IsDigit(s[i])

\* int(s): a run of digits, with an optional sign before it; else ValueError
IntOk(s) ==
    \/ AllDigits(s)
    \/ Len(s) >= 2 /\ s[1] = "-" /\ AllDigits(Tail(s))
IntVal(s) == IF s[1] = "-" THEN 0 - DigitsValue(Tail(s)) ELSE DigitsValue(s)

\* datetime.date: the proleptic Gregorian calendar
IsLeap(y) == y % 4 = 0 /\ (y % 100 # 0 \/ y % 400 = 0)
DaysInMonth(y, m) ==
    IF m = 2 THEN (IF IsLeap(y) THEN 29 ELSE 28)
    ELSE IF m \in {4, 6, 9, 11} THEN 30 ELSE 31
\* date(y, m, d) raises ValueError unless this holds
DateOk(y, m, d) ==
    /\ 1 <= y /\ y <= 9999
    /\ 1 <= m /\ m <= 12
    /\ 1 <= d /\ d <= DaysInMonth(y, m)
RECURSIVE DaysBeforeMonth(_, _)
DaysBeforeMonth(y, m) ==
    IF m = 1 THEN 0 ELSE DaysBeforeMonth(y, m - 1) + DaysInMonth(y, m - 1)
DaysBeforeYear(y) ==
    (y - 1) * 365 + ((y - 1) \div 4) - ((y - 1) \div 100) + ((y - 1) \div 400)
ToOrdinal(dt) == DaysBeforeYear(dt[1]) + DaysBeforeMonth(dt[1], dt[2]) + dt[3]
\* date.weekday(): Monday is 0
Weekday(dt) == (ToOrdinal(dt) + 6) % 7
\* date1 <= date2
DateLE(a, b) ==
    \/ a[1] < b[1]
    \/ a[1] = b[1] /\ a[2] < b[2]
    \/ a[1] = b[1] /\ a[2] = b[2] /\ a[3] <= b[3]

\* bus.py:126-140  BusService.__init__: does the constructor raise?
ServiceCodeOk(service_id) ==
    /\ IntOk(Slice(service_id, 0, 4))
    /\ IntOk(Slice(service_id, 4, 6))
    /\ IntOk(Slice(service_id, 6, 8))
    /\ DateOk(IntVal(Slice(service_id, 0, 4)),
              IntVal(Slice(service_id, 4, 6)),
              IntVal(Slice(service_id, 6, 8)))

\* bus.py:126-140  the object BusService(service_id) builds
NewService(service_id) ==
    [id |-> service_id,
     trips |-> EmptyDict,
     valid_from |-> << IntVal(Slice(service_id, 0, 4)),
                       IntVal(Slice(service_id, 4, 6)),
                       IntVal(Slice(service_id, 6, 8)) >>,
     weekdays |-> LET m == Slice(service_id, 9, 16)
                  IN  [i \in 1..Len(m) |-> m[i] # "-"]]

\* bus.py:154-155  BusService.is_active_on_date; an index past the end of
\* _weekdays raises IndexError
IsActiveOnDateRaises(s, on_date) ==
    DateLE(s.valid_from, on_date) /\ Weekday(on_date) + 1 > Len(s.weekdays)
\* Faulty variant: the weekday mask alone decides.
IsActiveOnDate_NoValidFrom(s, on_date) == s.weekdays[Weekday(on_date) + 1]
IsActiveOnDate(s, on_date) ==
    DateLE(s.valid_from, on_date) /\ s.weekdays[Weekday(on_date) + 1]

\* dict: d[k] = v keeps the place of a key that is already there
RECURSIVE SeqHas(_, _)
SeqHas(s, x) == s # <<>> /\ (Head(s) = x \/ SeqHas(Tail(s), x))
AddKey(s, k) == IF SeqHas(s, k) THEN s ELSE Append(s, k)

\* The catalog: the three class-level registries.
\*   routes:   route id -> the service ids of route._services, in dict order
\*   services: service id -> the BusService object
\*   trips:    trip id -> the BusTrip object
EmptyCatalog == [routes |-> EmptyDict, services |-> EmptyDict, trips |-> EmptyDict]

\* bus.py:98-108  BusTrip(**kwargs)
NewTrip(f) ==
    [id |-> f[3], headsign |-> f[4], short_name |-> f[5], direction |-> f[6],
     block |-> f[7]]

\* bus.py:203-218  what one data row raises, or "none"
RowError(cat, f) ==
    IF Len(f) # 8 THEN "AssertionError"
    ELSE IF Len(f[1]) < 2 THEN "IndexError"
    ELSE IF f[2] \notin DOMAIN cat.services /\ ~ServiceCodeOk(f[2]) THEN "ValueError"
    ELSE "none"

\* bus.py:206-207, 182-184  BusRoute.get(route_id) creates the route if absent
RouteGet(routes, route_id) ==
    IF route_id \in DOMAIN routes THEN routes ELSE DictPut(routes, route_id, <<>>)

\* bus.py:208, 142-144  BusService.get(service_id) creates the service if absent
ServiceGet(services, service_id) ==
    IF service_id \in DOMAIN services THEN services
    ELSE DictPut(services, service_id, NewService(service_id))

\* bus.py:203-218  the catalog after one data row; a row that raises leaves
\* behind what was done before the raising statement
RowEffect(cat, f) ==
    IF Len(f) # 8 \/ Len(f[1]) < 2 THEN cat
    ELSE LET route_id == f[1][2]
             routes1 == RouteGet(cat.routes, route_id)
         IN  IF RowError(cat, f) # "none"
             THEN [cat EXCEPT !.routes = routes1]
             ELSE LET services1 == ServiceGet(cat.services, f[2])
                      trip == NewTrip(f)
                  IN  [routes |-> DictPut(routes1, route_id, AddKey(routes1[route_id], f[2])),
                       services |-> [services1 EXCEPT ![f[2]].trips = DictPut(@, trip.id, trip)],
                       trips |-> DictPut(cat.trips, trip.id, trip)]

\* bus.py:192-218  the loop over the lines from line number index on: the
\* first line and blank lines are skipped, the first exception ends the load
RECURSIVE ReadLines(_, _, _)
ReadLines(cat, lines, index) ==
    IF index > Len(lines) THEN [cat |-> cat, err |-> "none"]
    ELSE IF index = 1 \/ lines[index].blank THEN ReadLines(cat, lines, index + 1)
    ELSE IF RowError(cat, lines[index].f) # "none"
         THEN [cat |-> RowEffect(cat, lines[index].f), err |-> RowError(cat, lines[index].f)]
    ELSE ReadLines(RowEffect(cat, lines[index].f), lines, index + 1)

\* bus.py:186-218  BusRoute.initialize() on trips.txt = lines
InitializeRoutes(cat, lines) ==
    ReadLines([cat EXCEPT !.routes = EmptyDict], lines, 1)

\* bus.py:176-177  BusRoute.active_services(on_date): the ids of the active services
ActiveServices(cat, route_id, on_date) ==
    SelectSeq(cat.routes[route_id],
              LAMBDA sid : IsActiveOnDate(cat.services[sid], on_date))
ActiveServicesRaises(cat, route_id, on_date) ==
    \E i \in 1..Len(cat.routes[route_id]) :
        IsActiveOnDateRaises(cat.services[cat.routes[route_id][i]], on_date)

\* bus.py:366-373, 410-416  what one stops.txt row raises, or "none"
StopRowError(f) ==
    IF Len(f) # 5 THEN "AssertionError"
    ELSE IF f[3].kind # "num" \/ f[4].kind # "num" THEN "ValueError"
    ELSE IF ~(-90 <= f[3].v /\ f[3].v <= 90) THEN "AssertionError"
    ELSE IF ~(-180 <= f[4].v /\ f[4].v <= 180) THEN "AssertionError"
    ELSE "none"

\* bus.py:395-416  BusStop.initialize() on stops.txt = lines, from line index on
RECURSIVE ReadStops(_, _, _)
ReadStops(stops, lines, index) ==
    IF index > Len(lines) THEN [stops |-> stops, err |-> "none"]
    ELSE IF index = 1 \/ lines[index].blank THEN ReadStops(stops, lines, index + 1)
    ELSE IF StopRowError(lines[index].f) # "none"
         THEN [stops |-> stops, err |-> StopRowError(lines[index].f)]
    ELSE LET f == lines[index].f
         IN  ReadStops(DictPut(stops, f[1],
                               [id |-> f[1], name |-> f[2], location |-> <<f[3].v, f[4].v>>]),
                       lines, index + 1)

VARIABLES
    Bus_all_buses,   \* Bus._all_buses: [none, items]
    Bus_timestamp,   \* Bus._timestamp: NoTime or the time of the last stamp
    Bus_lock,        \* Bus._lock: its holder, or NoThread
    now,             \* the last reading of the clock (datetime.utcnow()), in seconds
    statusFile,      \* resources/status.xml: [readable, feed]
    pc,              \* each thread's position in its call
    op,              \* each thread's call: [name, route]
    root,            \* _load_state's local: the parsed document
    idx,             \* _load_state's position in root.findall('bus')
    result,          \* what the thread's call returned or raised
    calls,           \* calls started so far
    whole,           \* whether the object Bus._all_buses names was built by a load that finished
    hist,            \* per call: what was observed on the way (see NoHist)
    prev,            \* during a load: Bus._all_buses and Bus._timestamp as the load found them
    BusRoute_all_routes,      \* BusRoute._all_routes
    BusService_all_services,  \* BusService._all_services
    BusTrip_all_trips,        \* BusTrip._all_trips
    BusStop_all_stops,        \* BusStop._all_stops
    loadLog,         \* the BusRoute.initialize() calls so far: [lines, err, before]
    stopLog,         \* the BusStop.initialize() calls so far: [lines, err, before]
    query,           \* the last active_services() call and what it returned
    daysUp           \* the days gone by since the module was loaded

cacheVars == << Bus_all_buses, Bus_timestamp, Bus_lock, now, statusFile, pc, op,
                root, idx, result, calls, whole, hist, prev >>
catVars == << BusRoute_all_routes, BusService_all_services, BusTrip_all_trips,
              BusStop_all_stops, loadLog, stopLog, query, daysUp >>
vars == << cacheVars, catVars >>

NoOp == [name |-> "none", route |-> ""]
\* What a call gave its caller:
\*   kind   "dict" (all_buses), "list" (buses_on_route), "error" (an exception) or "none"
\*   at     "refresh": the exception left refresh_state; "read": the return statement ran
\*   items  the content of Bus._all_buses when the call returned or raised
\*   list   the list that buses_on_route returned
\*   whole  whether Bus._all_buses was, at that moment, the result of a finished load
\*   stamp  Bus._timestamp when an exception left refresh_state
\*   prev   Bus._all_buses and Bus._timestamp as the load that raised had found them
NoResult ==
    [kind |-> "none", err |-> "", at |-> "", items |-> EmptyDict, list |-> <<>>,
     whole |-> FALSE, stamp |-> NoTime, prev |-> [buses |-> NoneBuses, stamp |-> NoTime]]
\* What a call has seen so far:
\*   stale       the cache was stale (no timestamp, or 60 s old) when the call began
\*   conc        the threads that were inside a call when this call began
\*   checked/age the staleness check was made / the snapshot's age it found (NoTime: no timestamp)
\*   began       the clock reading of the staleness check, which decided on the refresh
\*   fetches     calls of _fetch_state;  reads: calls of _read_state
\*   remote      how the remote fetch ended;  source: the document _load_state parsed
\*   loaded      _load_state ran to its last line in this call
NoHist ==
    [stale |-> FALSE, conc |-> {}, checked |-> FALSE, age |-> NoTime, began |-> NoTime,
     fetches |-> 0, reads |-> 0, remote |-> "none", source |-> "none",
     loaded |-> FALSE]

NoPrev == [buses |-> NoneBuses, stamp |-> NoTime]

StaleAt(time) == Bus_timestamp = NoTime \/ time - Bus_timestamp >= StalenessWindow
InCall(t) == pc[t] \notin {"idle", "done"}
InRefresh(t) == pc[t] \in {"check", "clear", "fetch", "read", "parse"}

CacheInit ==
    /\ Bus_all_buses = NoneBuses
    /\ Bus_timestamp = NoTime
    /\ Bus_lock = NoThread
    /\ now = 0
    /\ statusFile \in {[readable |-> FALSE, feed |-> <<>>]}
                       \cup {[readable |-> TRUE, feed |-> f] : f \in LocalFeeds}
    /\ pc = [t \in Threads |-> "idle"]
    /\ op = [t \in Threads |-> NoOp]
    /\ root = [t \in Threads |-> <<>>]
    /\ idx = [t \in Threads |-> 0]
    /\ result = [t \in Threads |-> NoResult]
    /\ calls = 0
    /\ whole = FALSE
    /\ hist = [t \in Threads |-> NoHist]
    /\ prev = NoPrev

\* How many day changes the process lives through.
MaxDaysUp == 1

\* The calendar day on which the module is loaded (a Monday).
ImportDay == <<2024, 1, 15>>
\* The day after dt
Tomorrow(dt) ==
    IF dt[3] < DaysInMonth(dt[1], dt[2]) THEN <<dt[1], dt[2], dt[3] + 1>>
    ELSE IF dt[2] < 12 THEN <<dt[1], dt[2] + 1, 1>>
    ELSE <<dt[1] + 1, 1, 1>>
RECURSIVE AddDays(_, _)
AddDays(dt, n) == IF n = 0 THEN dt ELSE AddDays(Tomorrow(dt), n - 1)
\* date.today() when it is called
Today == AddDays(ImportDay, daysUp)
\* bus.py:176  "def active_services(self, on_date=date.today())": the default
\* is computed once, when the def statement runs as the module is loaded
DefaultOnDate == ImportDay

\* query.default: on_date was left out;  query.called_on: the day of the call
NoQuery ==
    [route |-> "", date |-> <<1, 1, 1>>, res |-> <<>>, raised |-> FALSE, asked |-> FALSE,
     default |-> FALSE, called_on |-> <<1, 1, 1>>]

\* The registries as the class bodies leave them: bus.py:100, 124, 166, 364
CatalogInit ==
    /\ BusRoute_all_routes = EmptyDict
    /\ BusService_all_services = EmptyDict
    /\ BusTrip_all_trips = EmptyDict
    /\ BusStop_all_stops = EmptyDict
    /\ loadLog = <<>>
    /\ stopLog = <<>>
    /\ query = NoQuery
    /\ daysUp = 0

Init == CacheInit /\ CatalogInit

(***************************************************************************)
(* A thread calls Bus.all_buses() or Bus.buses_on_route(route_id), d        *)
(* seconds after the clock was last read.  The clock is read by the        *)
(* staleness check and by the stamp of a load; each reading may find that  *)
(* time has passed.                                                        *)
(***************************************************************************)
Call(t, name, route, d) ==
    /\ pc[t] = "idle"
    /\ now + d <= MaxTime
    /\ now' = now + d
    \* idle threads are alike: the next call is made by the first of them
    /\ \A u \in Threads : pc[u] = "idle" => t <= u
    /\ calls < MaxCalls
    /\ calls' = calls + 1
    /\ pc' = [pc EXCEPT ![t] = "acquire"]
    /\ op' = [op EXCEPT ![t] = [name |-> name, route |-> route]]
    /\ hist' = [u \in Threads |->
                  IF u = t
                  THEN [NoHist EXCEPT !.stale = StaleAt(now + d),
                                      !.conc = {v \in Threads \ {t} : InCall(v)}]
                  ELSE hist[u]]
    /\ UNCHANGED << Bus_all_buses, Bus_timestamp, Bus_lock, statusFile,
                    root, idx, result, whole >>
    /\ UNCHANGED << prev, catVars >>

\* Faulty variant: the caller does not wait for the lock.
Acquire_NoWait(t) ==
    /\ pc[t] = "acquire"
    /\ Bus_lock' = t
    /\ pc' = [pc EXCEPT ![t] = "check"]
    /\ UNCHANGED << Bus_all_buses, Bus_timestamp, now, statusFile, op,
                    root, idx, result, calls, whole, hist >>
    /\ UNCHANGED << prev, catVars >>

\* bus.py:302  "with Bus._lock:" blocks until the lock is free
Acquire(t) ==
    /\ pc[t] = "acquire"
    /\ Bus_lock = NoThread
    /\ Bus_lock' = t
    /\ pc' = [pc EXCEPT ![t] = "check"]
    /\ UNCHANGED << Bus_all_buses, Bus_timestamp, now, statusFile, op,
                    root, idx, result, calls, whole, hist >>
    /\ UNCHANGED << prev, catVars >>

\* Faulty variant: the load is started whatever the snapshot's age.
Check_AlwaysLoad(t, d) ==
    /\ pc[t] = "check"
    /\ now + d <= MaxTime
    /\ now' = now + d
    /\ hist' = [hist EXCEPT ![t].checked = TRUE, ![t].began = now + d,
                            ![t].age = IF Bus_timestamp = NoTime THEN NoTime
                                       ELSE now + d - Bus_timestamp]
    /\ pc' = [pc EXCEPT ![t] = "clear"]
    /\ UNCHANGED << Bus_all_buses, Bus_timestamp, Bus_lock, statusFile, op,
                    root, idx, result, calls, whole >>
    /\ UNCHANGED << prev, catVars >>

\* Faulty variant: any snapshot that has a timestamp is taken for fresh.
Check_NoWindow(t, d) ==
    /\ pc[t] = "check"
    /\ now + d <= MaxTime
    /\ now' = now + d
    /\ hist' = [hist EXCEPT ![t].checked = TRUE, ![t].began = now + d,
                            ![t].age = IF Bus_timestamp = NoTime THEN NoTime
                                       ELSE now + d - Bus_timestamp]
    /\ IF Bus_timestamp # NoTime
       THEN /\ pc' = [pc EXCEPT ![t] = "ret"]
            /\ Bus_lock' = NoThread
       ELSE /\ pc' = [pc EXCEPT ![t] = "clear"]
            /\ UNCHANGED Bus_lock
    /\ UNCHANGED << Bus_all_buses, Bus_timestamp, statusFile, op,
                    root, idx, result, calls, whole >>
    /\ UNCHANGED << prev, catVars >>

\* bus.py:303-309  the staleness check; "return" leaves the with block and frees the lock
Check(t, d) ==
    /\ pc[t] = "check"
    /\ now + d <= MaxTime
    /\ now' = now + d
    /\ hist' = [hist EXCEPT ![t].checked = TRUE, ![t].began = now + d,
                            ![t].age = IF Bus_timestamp = NoTime THEN NoTime
                                       ELSE now + d - Bus_timestamp]
    /\ IF Bus_timestamp # NoTime /\ now + d - Bus_timestamp < StalenessWindow
       THEN /\ pc' = [pc EXCEPT ![t] = "ret"]
            /\ Bus_lock' = NoThread
       ELSE /\ pc' = [pc EXCEPT ![t] = "clear"]
            /\ UNCHANGED Bus_lock
    /\ UNCHANGED << Bus_all_buses, Bus_timestamp, statusFile, op,
                    root, idx, result, calls, whole >>
    /\ UNCHANGED << prev, catVars >>

\* Faulty variant: the load writes the timestamp when it starts.
Clear_StampsFirst(t) ==
    /\ pc[t] = "clear"
    /\ prev' = [buses |-> Bus_all_buses, stamp |-> Bus_timestamp]
    /\ Bus_all_buses' = FreshBuses
    /\ Bus_timestamp' = now
    /\ whole' = FALSE
    /\ pc' = [pc EXCEPT ![t] = "fetch"]
    /\ UNCHANGED << Bus_lock, now, statusFile, op, root, idx, result, calls, hist >>
    /\ UNCHANGED catVars

\* bus.py:275  "Bus._all_buses = defaultdict(list)"
Clear(t) ==
    /\ pc[t] = "clear"
    /\ prev' = [buses |-> Bus_all_buses, stamp |-> Bus_timestamp]
    /\ Bus_all_buses' = FreshBuses
    /\ whole' = FALSE
    /\ pc' = [pc EXCEPT ![t] = "fetch"]
    /\ UNCHANGED << Bus_timestamp, Bus_lock, now, statusFile, op,
                    root, idx, result, calls, hist >>
    /\ UNCHANGED catVars

\* Faulty variant: the exception leaves refresh_state with the lock still held.
Raise_KeepsLock(t, e) ==
    /\ pc' = [pc EXCEPT ![t] = "done"]
    /\ result' = [result EXCEPT ![t] =
                    [NoResult EXCEPT !.kind = "error", !.err = e, !.at = "refresh",
                                     !.items = Bus_all_buses.items, !.whole = whole,
                                     !.stamp = Bus_timestamp, !.prev = prev]]
    /\ UNCHANGED Bus_lock
    /\ prev' = NoPrev

\* An exception leaves _load_state and refresh_state (whose with block frees
\* the lock) and reaches the caller of all_buses / buses_on_route.
Raise(t, e) ==
    /\ pc' = [pc EXCEPT ![t] = "done"]
    /\ result' = [result EXCEPT ![t] =
                    [NoResult EXCEPT !.kind = "error", !.err = e, !.at = "refresh",
                                     !.items = Bus_all_buses.items, !.whole = whole,
                                     !.stamp = Bus_timestamp, !.prev = prev]]
    /\ Bus_lock' = NoThread
    /\ prev' = NoPrev

\* bus.py:277, 256-264  _fetch_state: the request succeeds with a well-formed body
FetchOk(t, feed) ==
    /\ pc[t] = "fetch"
    /\ root' = [root EXCEPT ![t] = feed]
    /\ idx' = [idx EXCEPT ![t] = 1]
    /\ pc' = [pc EXCEPT ![t] = "parse"]
    /\ hist' = [hist EXCEPT ![t].fetches = @ + 1, ![t].remote = "ok",
                            ![t].source = "remote"]
    /\ UNCHANGED << Bus_all_buses, Bus_timestamp, Bus_lock, now, statusFile, op,
                    result, calls, whole >>
    /\ UNCHANGED << prev, catVars >>

\* bus.py:259-264  a status code other than ok: _fetch_state returns None
FetchBadStatus(t) ==
    /\ pc[t] = "fetch"
    /\ pc' = [pc EXCEPT ![t] = "read"]
    /\ hist' = [hist EXCEPT ![t].fetches = @ + 1, ![t].remote = "bad_status"]
    /\ UNCHANGED << Bus_all_buses, Bus_timestamp, Bus_lock, now, statusFile, op,
                    root, idx, result, calls, whole >>
    /\ UNCHANGED << prev, catVars >>

\* bus.py:258  requests.get raises (no connection, time-out): nothing catches it
FetchNetworkError(t) ==
    /\ pc[t] = "fetch"
    /\ hist' = [hist EXCEPT ![t].fetches = @ + 1, ![t].remote = "network_error"]
    /\ Raise(t, "ConnectionError")
    /\ UNCHANGED << Bus_all_buses, Bus_timestamp, now, statusFile, op,
                    root, idx, calls, whole >>
    /\ UNCHANGED catVars

\* bus.py:262  ET.fromstring raises ParseError on a malformed body: nothing catches it
FetchMalformed(t) ==
    /\ pc[t] = "fetch"
    /\ hist' = [hist EXCEPT ![t].fetches = @ + 1, ![t].remote = "malformed"]
    /\ Raise(t, "ParseError")
    /\ UNCHANGED << Bus_all_buses, Bus_timestamp, now, statusFile, op,
                    root, idx, calls, whole >>
    /\ UNCHANGED catVars

\* bus.py:280, 266-269  _read_state: ET.parse(_STATUS_FILE) of a readable file
ReadOk(t) ==
    /\ pc[t] = "read"
    /\ statusFile.readable
    /\ root' = [root EXCEPT ![t] = statusFile.feed]
    /\ idx' = [idx EXCEPT ![t] = 1]
    /\ pc' = [pc EXCEPT ![t] = "parse"]
    /\ hist' = [hist EXCEPT ![t].reads = @ + 1, ![t].source = "local"]
    /\ UNCHANGED << Bus_all_buses, Bus_timestamp, Bus_lock, now, statusFile, op,
                    result, calls, whole >>
    /\ UNCHANGED << prev, catVars >>

\* Faulty variant: an unreadable file is taken for an empty document.
ReadFails_EmptyDocument(t) ==
    /\ pc[t] = "read"
    /\ ~statusFile.readable
    /\ root' = [root EXCEPT ![t] = <<>>]
    /\ idx' = [idx EXCEPT ![t] = 1]
    /\ pc' = [pc EXCEPT ![t] = "parse"]
    /\ hist' = [hist EXCEPT ![t].reads = @ + 1]
    /\ UNCHANGED << Bus_all_buses, Bus_timestamp, Bus_lock, now, statusFile, op,
                    result, calls, whole >>
    /\ UNCHANGED << prev, catVars >>

\* bus.py:269  ET.parse raises on a missing or unreadable file
ReadFails(t) ==
    /\ pc[t] = "read"
    /\ ~statusFile.readable
    /\ hist' = [hist EXCEPT ![t].reads = @ + 1]
    /\ Raise(t, "OSError")
    /\ UNCHANGED << Bus_all_buses, Bus_timestamp, now, statusFile, op,
                    root, idx, calls, whole >>
    /\ UNCHANGED catVars

\* bus.py:281-296, 232-242  one pass of the loop: convert the record's fields
\* and append the Bus to Bus._all_buses[route_id]
ParseRecord(t) ==
    /\ pc[t] = "parse"
    /\ idx[t] <= Len(root[t])
    /\ RecordError(root[t][idx[t]]) = "none"
    /\ ~KeyMissing(Bus_all_buses, root[t][idx[t]].route)
    /\ LET b == BusOf(root[t][idx[t]])
           d == Bus_all_buses.items
       IN  Bus_all_buses' =
               [Bus_all_buses EXCEPT !.items =
                   DictPut(d, b.route_id, Append(DefaultGet(d, b.route_id), b))]
    /\ idx' = [idx EXCEPT ![t] = @ + 1]
    /\ UNCHANGED << Bus_timestamp, Bus_lock, now, statusFile, pc, op,
                    root, result, calls, whole, hist >>
    /\ UNCHANGED << prev, catVars >>

\* bus.py:282-288, 238-239  float(), int() or an assert raises: nothing catches it
ParseRecordFails(t) ==
    /\ pc[t] = "parse"
    /\ idx[t] <= Len(root[t])
    /\ RecordError(root[t][idx[t]]) # "none" \/ KeyMissing(Bus_all_buses, root[t][idx[t]].route)
    /\ Raise(t, IF RecordError(root[t][idx[t]]) # "none"
                THEN RecordError(root[t][idx[t]]) ELSE "KeyError")
    /\ UNCHANGED << Bus_all_buses, Bus_timestamp, now, statusFile, op,
                    root, idx, calls, whole, hist >>
    /\ UNCHANGED catVars

\* Faulty variant: the load does not write the timestamp.
Stamp_NoTimestamp(t, d) ==
    /\ pc[t] = "parse"
    /\ idx[t] > Len(root[t])
    /\ now + d <= MaxTime
    /\ now' = now + d
    /\ whole' = TRUE
    /\ Bus_lock' = NoThread
    /\ pc' = [pc EXCEPT ![t] = "ret"]
    /\ hist' = [hist EXCEPT ![t].loaded = TRUE]
    /\ prev' = NoPrev
    /\ UNCHANGED << Bus_all_buses, Bus_timestamp, statusFile, op, root, idx,
                    result, calls >>
    /\ UNCHANGED catVars

\* bus.py:297  "Bus._timestamp = datetime.utcnow()", then _load_state and
\* refresh_state return and the with block frees the lock
Stamp(t, d) ==
    /\ pc[t] = "parse"
    /\ idx[t] > Len(root[t])
    /\ now + d <= MaxTime
    /\ now' = now + d
    /\ Bus_timestamp' = now + d
    /\ whole' = TRUE
    /\ Bus_lock' = NoThread
    /\ pc' = [pc EXCEPT ![t] = "ret"]
    /\ hist' = [hist EXCEPT ![t].loaded = TRUE]
    /\ prev' = NoPrev
    /\ UNCHANGED << Bus_all_buses, statusFile, op, root, idx, result, calls >>
    /\ UNCHANGED catVars

\* bus.py:248  "return Bus._all_buses"
ReturnAll(t) ==
    /\ pc[t] = "ret"
    /\ op[t].name = "all_buses"
    /\ pc' = [pc EXCEPT ![t] = "done"]
    /\ result' = [result EXCEPT ![t] =
                    [NoResult EXCEPT !.kind = IF Bus_all_buses.none THEN "None" ELSE "dict",
                                     !.at = "read",
                                     !.items = Bus_all_buses.items,
                                     !.whole = whole]]
    /\ UNCHANGED << Bus_all_buses, Bus_timestamp, Bus_lock, now, statusFile, op,
                    root, idx, calls, whole, hist >>
    /\ UNCHANGED << prev, catVars >>

\* Faulty variant: the lookup of a plain dict, with no default for a missing key.
RouteLookupRaises_NoDefault(b, k) == b.none \/ k \notin DOMAIN b.items

\* Bus._all_buses[route_id] raises: TypeError on None, KeyError on a plain dict
\* without the key; a defaultdict inserts and returns an empty list instead.
RouteLookupRaises(b, k) == b.none \/ KeyMissing(b, k)

\* bus.py:253  "return Bus._all_buses[route_id]"
ReturnRoute(t) ==
    /\ pc[t] = "ret"
    /\ op[t].name = "buses_on_route"
    /\ pc' = [pc EXCEPT ![t] = "done"]
    /\ IF RouteLookupRaises(Bus_all_buses, op[t].route)
       THEN /\ result' = [result EXCEPT ![t] =
                            [NoResult EXCEPT !.kind = "error", !.at = "read",
                                 !.err = IF Bus_all_buses.none THEN "TypeError"
                                         ELSE "KeyError",
                                 !.items = Bus_all_buses.items, !.whole = whole]]
            /\ UNCHANGED Bus_all_buses
       ELSE /\ result' = [result EXCEPT ![t] =
                            [NoResult EXCEPT !.kind = "list", !.at = "read",
                                 !.list = DefaultGet(Bus_all_buses.items, op[t].route),
                                 !.items = Bus_all_buses.items, !.whole = whole]]
            /\ Bus_all_buses' =
                   [Bus_all_buses EXCEPT !.items = DefaultTouch(@, op[t].route)]
    /\ UNCHANGED << Bus_timestamp, Bus_lock, now, statusFile, op,
                    root, idx, calls, whole, hist >>
    /\ UNCHANGED << prev, catVars >>

\* The caller is done with what it got; the thread is free for its next call.
Finish(t) ==
    /\ pc[t] = "done"
    /\ pc' = [pc EXCEPT ![t] = "idle"]
    /\ op' = [op EXCEPT ![t] = NoOp]
    /\ root' = [root EXCEPT ![t] = <<>>]
    /\ idx' = [idx EXCEPT ![t] = 0]
    /\ result' = [result EXCEPT ![t] = NoResult]
    /\ hist' = [u \in Threads |->
                  IF u = t THEN NoHist
                  ELSE [hist[u] EXCEPT !.conc = @ \ {t}]]
    /\ UNCHANGED << Bus_all_buses, Bus_timestamp, Bus_lock, now, statusFile,
                    calls, whole >>
    /\ UNCHANGED << prev, catVars >>

Next ==
    \/ \E t \in Threads : \E d \in Elapsed : Call(t, "all_buses", "", d)
    \/ \E t \in Threads : \E d \in Elapsed : \E r \in QueryRoutes :
          Call(t, "buses_on_route", r, d)
    \/ \E t \in Threads : Acquire(t)
    \/ \E t \in Threads : \E d \in Elapsed : Check(t, d)
    \/ \E t \in Threads : Clear(t)
    \/ \E t \in Threads : \E f \in RemoteFeeds : FetchOk(t, f)
    \/ \E t \in Threads : FetchBadStatus(t)
    \/ \E t \in Threads : FetchNetworkError(t)
    \/ \E t \in Threads : FetchMalformed(t)
    \/ \E t \in Threads : ReadOk(t)
    \/ \E t \in Threads : ReadFails(t)
    \/ \E t \in Threads : ParseRecord(t)
    \/ \E t \in Threads : ParseRecordFails(t)
    \/ \E t \in Threads : \E d \in Elapsed : Stamp(t, d)
    \/ \E t \in Threads : ReturnAll(t)
    \/ \E t \in Threads : ReturnRoute(t)
    \/ \E t \in Threads : Finish(t)

Spec == Init /\ [][Next]_vars

\* A thread that is inside all_buses / buses_on_route keeps running: each of
\* its steps is taken once it stays possible (threads are scheduled, the
\* fetch and the file read come back).  Starting a call and picking up the
\* result are up to the caller and carry no such promise.
Progress(t) ==
    \/ Acquire(t)
    \/ \E d \in Elapsed : Check(t, d)
    \/ Clear(t)
    \/ \E f \in RemoteFeeds : FetchOk(t, f)
    \/ FetchBadStatus(t)
    \/ FetchNetworkError(t)
    \/ FetchMalformed(t)
    \/ ReadOk(t)
    \/ ReadFails(t)
    \/ ParseRecord(t)
    \/ ParseRecordFails(t)
    \/ \E d \in Elapsed : Stamp(t, d)
    \/ ReturnAll(t)
    \/ ReturnRoute(t)

SpecLive == Init /\ [][Next]_vars /\ \A t \in Threads : WF_vars(Progress(t))

(***************************************************************************)
(* Claims about the fleet-state cache (checked under Spec).                *)
(***************************************************************************)
Fresh(age) == age # NoTime /\ age < StalenessWindow
Done(t) == pc[t] = "done"
\* Two calls that overlap in time
Concurrent(t, u) == u \in hist[t].conc \/ t \in hist[u].conc
RemoteFetches(t, u) == hist[t].fetches + hist[u].fetches

\* C1: at most one thread is inside the refresh protocol (the staleness
\* check and _load_state) at a time, and it is the holder of the lock; a
\* caller that arrives meanwhile waits before "with Bus._lock".
C1_OneRefreshAtATime ==
    /\ Cardinality({t \in Threads : InRefresh(t)}) <= 1
    /\ \A t \in Threads : InRefresh(t) => Bus_lock = t

\* C1 witness: one thread is fetching while another waits for the lock.
C1_Witness ==
    \E t, u \in Threads : t # u /\ pc[t] = "fetch" /\ pc[u] = "acquire"

\* C2 (as claimed): two concurrent callers that began on a stale cache have
\* made exactly one remote fetch between them when both are done.
C2_ExactlyOneFetch ==
    \A t, u \in Threads :
        (t # u /\ Done(t) /\ Done(u) /\ Concurrent(t, u)
              /\ hist[t].stale /\ hist[u].stale)
            => RemoteFetches(t, u) = 1

\* C2 (amended): of two concurrent callers that began on a stale cache,
\* each fetches once if its staleness check finds no snapshot less than
\* 60 s old, and not at all otherwise.  So when one of them (t) completes
\* its load and the other (u) finds that snapshot fresh, there is one
\* remote fetch in all; when both checks find the cache stale (the first
\* refresh raised and wrote no timestamp, or 60 s passed before the second
\* check) there are two.  When both complete a load, the later one saw the
\* timestamp of the earlier.
C2_OneFetchIfFirstLoadStamps ==
    \A t, u \in Threads :
        (t # u /\ Done(t) /\ Done(u) /\ Concurrent(t, u)
              /\ hist[t].stale /\ hist[u].stale)
            => /\ hist[t].fetches = (IF Fresh(hist[t].age) THEN 0 ELSE 1)
               /\ hist[u].fetches = (IF Fresh(hist[u].age) THEN 0 ELSE 1)
               /\ (hist[t].loaded /\ Fresh(hist[u].age)) => RemoteFetches(t, u) = 1
               /\ (~Fresh(hist[t].age) /\ ~Fresh(hist[u].age)) => RemoteFetches(t, u) = 2
               /\ (hist[t].loaded /\ hist[u].loaded)
                     => (hist[t].age # NoTime \/ hist[u].age # NoTime)

\* C2 witness: both callers began on a stale cache, the first loaded and
\* stamped, the second found the snapshot fresh: one fetch.
C2_Witness ==
    \E t, u \in Threads :
        /\ t # u /\ Done(t) /\ Done(u) /\ Concurrent(t, u)
        /\ hist[t].stale /\ hist[u].stale
        /\ hist[t].loaded /\ Fresh(hist[u].age)
        /\ RemoteFetches(t, u) = 1

\* C3: a call whose staleness check finds a snapshot less than 60 s old
\* returns without refreshing: it makes no remote fetch and no read of the
\* local fallback file, and does not run _load_state.
C3_FreshSnapshotIsNotRefreshed ==
    \A t \in Threads :
        (hist[t].checked /\ Fresh(hist[t].age))
            => /\ hist[t].fetches = 0
               /\ hist[t].reads = 0
               /\ ~hist[t].loaded
               /\ pc[t] \in {"ret", "done"}
               /\ Done(t) => result[t].kind \in {"dict", "list"}

\* C3 witness: a call has returned a snapshot that it found fresh.
C3_Witness ==
    \E t \in Threads :
        /\ Done(t) /\ hist[t].checked /\ Fresh(hist[t].age)
        /\ result[t].kind = "dict" /\ result[t].items # EmptyDict
        /\ hist[t].fetches = 0

\* C4: when the remote fetch of a refresh fails (network error, non-success
\* status or malformed body) and the local fallback file is readable,
\* all_buses() returns normally with the snapshot that parsing the local
\* file gives.
C4_RemoteFailureFallsBackToLocal ==
    \A t \in Threads :
        (Done(t) /\ op[t].name = "all_buses" /\ statusFile.readable
              /\ hist[t].remote \in {"network_error", "bad_status", "malformed"})
            => /\ result[t].kind = "dict"
               /\ result[t].items = ParseFeed(statusFile.feed, EmptyDict)

\* C5: when a refresh is attempted while a previous snapshot exists and
\* both the remote feed and the local file are unavailable, the refresh
\* fails and the cache still holds the previous snapshot, with its old
\* timestamp.
C5_FailedRefreshKeepsPreviousSnapshot ==
    \A t \in Threads :
        (Done(t) /\ result[t].kind = "error" /\ result[t].at = "refresh"
              /\ hist[t].remote # "ok" /\ ~statusFile.readable
              /\ result[t].prev.stamp # NoTime)
            => /\ result[t].items = result[t].prev.buses.items
               /\ result[t].stamp = result[t].prev.stamp

\* C6: no reader obtains a half-built snapshot: the mapping that all_buses
\* or buses_on_route reads is the complete result of a finished load, never
\* one that _load_state has cleared and not yet finished filling.
C6_ReaderSeesWholeSnapshot ==
    \A t \in Threads :
        (Done(t) /\ result[t].at = "read") => result[t].whole

\* C7: buses_on_route(route_id), once its refresh_state has returned, does
\* not fail with a missing key, and returns an empty list for a route id
\* without sightings in the snapshot it reads.
C7_NoSightingsGivesEmptyList ==
    \A t \in Threads :
        (Done(t) /\ op[t].name = "buses_on_route" /\ result[t].at = "read")
            => /\ result[t].kind = "list"
               /\ (op[t].route \notin DOMAIN result[t].items
                      \/ result[t].items[op[t].route] = <<>>)
                    => result[t].list = <<>>
               /\ op[t].route \in DOMAIN result[t].items
                    => result[t].list = result[t].items[op[t].route]

\* C7 witness: after a load that finished, buses_on_route was asked for a
\* route id that is no key of the snapshot and returned an empty list.
C7_Witness ==
    \E t \in Threads :
        /\ Done(t) /\ op[t].name = "buses_on_route" /\ result[t].at = "read"
        /\ Bus_timestamp # NoTime /\ result[t].whole
        /\ result[t].items # EmptyDict
        /\ op[t].route \notin DOMAIN result[t].items
        /\ result[t].list = <<>>

RemoteFailed(t) == hist[t].remote \in {"network_error", "bad_status", "malformed"}

\* C11: when a call's staleness check finds no timestamp (no snapshot was
\* ever captured) and both the remote feed and the local file are
\* unavailable, the call fails with an exception out of refresh_state and
\* the timestamp is still unset when the exception reaches the caller.
C11_NoSnapshotNoSourceFails ==
    \A t \in Threads :
        (Done(t) /\ hist[t].checked /\ hist[t].age = NoTime
              /\ RemoteFailed(t) /\ ~statusFile.readable)
            => /\ result[t].kind = "error"
               /\ result[t].at = "refresh"
               /\ result[t].stamp = NoTime

\* C11 witness: on a cache that was never loaded, the remote answered with
\* a non-success status, status.xml could not be read, and the call raised.
C11_Witness ==
    \E t \in Threads :
        /\ Done(t) /\ hist[t].checked /\ hist[t].age = NoTime
        /\ hist[t].remote = "bad_status" /\ hist[t].reads = 1 /\ ~statusFile.readable
        /\ result[t].kind = "error" /\ result[t].err = "OSError"
        /\ result[t].prev.buses = NoneBuses
        /\ Bus_timestamp = NoTime

\* C12: the timestamp that a load writes when it completes is the time at
\* which its refresh began (the clock reading of the staleness check that
\* decided on it), not the time at which fetching and parsing finished.
C12_StampIsRefreshStart ==
    [][\A t \in Threads :
          (pc[t] = "parse" /\ pc'[t] = "ret") => Bus_timestamp' = hist[t].began]_vars

HasBadRecord(feed) == \E i \in 1..Len(feed) : RecordError(feed[i]) # "none"

\* C13: a record of the feed whose latitude, longitude, heading or code is
\* missing or malformed is skipped: the refresh that parses such a feed
\* still completes, and the call does not fail.
C13_BadRecordIsSkipped ==
    \A t \in Threads :
        (Done(t) /\ hist[t].source # "none" /\ HasBadRecord(root[t]))
            => /\ hist[t].loaded
               /\ result[t].kind # "error"

\* C15: a buses_on_route(route_id) call that found the snapshot fresh (and
\* so triggered no refresh) leaves Bus._all_buses as it was, its set of
\* route-id keys included, whatever the route id.
C15_QueryLeavesSnapshotUnchanged ==
    [][\A t \in Threads :
          (pc[t] = "ret" /\ pc'[t] = "done" /\ op[t].name = "buses_on_route"
                /\ Fresh(hist[t].age))
              => Bus_all_buses' = Bus_all_buses]_vars

\* C16: the lock is held only by a thread that is executing refresh_state,
\* so it is free whenever no thread is (an exception out of the load frees
\* it too); and every call that has begun returns or fails in the end.
C16_LockFreedOnEveryExit ==
    /\ [](\A t \in Threads : Bus_lock = t => InRefresh(t))
    /\ \A t \in Threads : InCall(t) ~> Done(t)

\* C16 witness: a load failed with an exception while another caller was
\* waiting, and that caller has since acquired the lock.
C16_Witness ==
    \E t, u \in Threads :
        /\ t # u /\ Concurrent(t, u)
        /\ Done(t) /\ result[t].kind = "error" /\ result[t].at = "refresh"
        /\ Bus_lock = u /\ InRefresh(u)

\* C17: the timestamp changes only in the last step of a load that ran to
\* completion.  A refresh that raises leaves the timestamp as the load found
\* it, unset or at least 60 s old, so the failure is not cached: every call
\* whose staleness check finds no snapshot less than 60 s old, the call
\* after a failed refresh included, makes the remote fetch.
C17_FailureIsNotCached ==
    /\ [][Bus_timestamp' # Bus_timestamp
            => \E t \in Threads : /\ pc[t] = "parse" /\ idx[t] > Len(root[t])
                                  /\ pc'[t] = "ret" /\ hist'[t].loaded]_vars
    /\ [](\A t \in Threads :
            /\ (Done(t) /\ result[t].kind = "error" /\ result[t].at = "refresh")
                  => /\ result[t].stamp = result[t].prev.stamp
                     /\ (result[t].stamp = NoTime
                            \/ now - result[t].stamp >= StalenessWindow)
            /\ (hist[t].checked /\ ~Fresh(hist[t].age)
                    /\ pc[t] \in {"read", "parse", "ret", "done"})
                  => hist[t].fetches = 1)

\* C17 witness: a refresh raised and left the timestamp unset; the next
\* call, begun after that one had ended, has made the remote fetch again.
C17_Witness ==
    \E t, u \in Threads :
        /\ t # u /\ ~Concurrent(t, u)
        /\ Done(t) /\ result[t].kind = "error" /\ result[t].at = "refresh"
        /\ result[t].stamp = NoTime /\ Bus_timestamp = NoTime
        /\ InCall(u) /\ hist[u].age = NoTime /\ hist[u].fetches = 1

\* refresh_state has returned normally in the thread's call
Returned(t) == pc[t] = "ret" \/ (Done(t) /\ result[t].at = "read")

\* C18: whenever refresh_state has returned normally, a snapshot exists and
\* its timestamp is set, and the call's staleness check found it less than
\* 60 s old or the call itself ran a load to completion; all_buses() never
\* returns None.
C18_ReturnedSnapshotIsFreshOrLoaded ==
    \A t \in Threads :
        Returned(t)
            => /\ Bus_timestamp # NoTime
               /\ ~Bus_all_buses.none
               /\ Fresh(hist[t].age) \/ hist[t].loaded
               /\ (Done(t) /\ op[t].name = "all_buses") => result[t].kind = "dict"

\* C18 witness: a call found the snapshot 60 s old or older, loaded a new
\* one and returned it.
C18_Witness ==
    \E t \in Threads :
        /\ Done(t) /\ result[t].at = "read" /\ result[t].kind = "dict"
        /\ hist[t].age # NoTime /\ hist[t].age >= StalenessWindow
        /\ hist[t].loaded

(***************************************************************************)
(* The schedule catalog's inputs: service codes, trips.txt and stops.txt.  *)
(***************************************************************************)
\* How many times the catalog files (trips.txt, stops.txt) are loaded in a run.
MaxLoads == 2

RECURSIVE DigitsOf(_, _)
\* n written with w digits
DigitsOf(n, w) ==
    IF w = 0 THEN <<>> ELSE Append(DigitsOf(n \div 10, w - 1), DigitChars[(n % 10) + 1])

\* A service code as the feed writes it: yyyymmdd, a separator, seven weekday marks
MkCode(dt, mask) == DigitsOf(dt[1], 4) \o DigitsOf(dt[2], 2) \o DigitsOf(dt[3], 2) \o <<"-">> \o mask

\* The well-formed service codes of the inputs: [date, mask]
WellFormedCodes ==
    { [date |-> <<2024, 1, 15>>, mask |-> <<"M", "-", "W", "-", "F", "-", "-">>],
      [date |-> <<2024, 3, 1>>, mask |-> <<"-", "T", "-", "T", "-", "S", "S">>],
      [date |-> <<2023, 12, 31>>, mask |-> <<"M", "T", "W", "T", "F", "S", "S">>] }
CodeOf(w) == MkCode(w.date, w.mask)
S1 == MkCode(<<2024, 1, 15>>, <<"M", "-", "W", "-", "F", "-", "-">>)
S2 == MkCode(<<2024, 3, 1>>, <<"-", "T", "-", "T", "-", "S", "S">>)
S3 == MkCode(<<2023, 12, 31>>, <<"M", "T", "W", "T", "F", "S", "S">>)
\* a code whose month is no number
BadDateCode == <<"2", "0", "2", "4", "x", "x", "1", "5", "-", "M", "T", "W", "T", "F", "S", "S">>

\* a code of the wrong length: the weekday marks stop after Wednesday
ShortCode == <<"2", "0", "2", "4", "0", "1", "1", "5", "-", "M", "T", "W">>

\* The dates active_services() is asked about
QueryDates ==
    { <<2023, 12, 31>>, <<2024, 1, 8>>, <<2024, 1, 15>>, <<2024, 1, 17>>,
      <<2024, 2, 29>>, <<2024, 3, 2>>, <<2024, 3, 4>> }

Line(f) == [blank |-> FALSE, f |-> f]
BlankLine == [blank |-> TRUE, f |-> <<>>]
TripRow(route, service, trip) ==
    << <<"ST", route>>, service, trip, "headsign", "short", "0", "block", "shape" >>
TripsHeader ==
    Line(<< <<"route_id">>, <<"s">>, "trip_id", "trip_headsign", "trip_short_name",
            "direction_id", "block_id", "shape_id" >>)

TripsA == << TripsHeader, Line(TripRow("1", S1, "t1")), Line(TripRow("1", S3, "t2")) >>
TripsB == << TripsHeader, Line(TripRow("1", S1, "t3")), BlankLine, Line(TripRow("2", S2, "t4")) >>
\* the second data row has 7 fields
TripsShortRow ==
    << TripsHeader, Line(TripRow("2", S2, "t5")),
       Line(SubSeq(TripRow("1", S1, "t6"), 1, 7)) >>
\* the second data row's service code does not decode
TripsBadCode ==
    << TripsHeader, Line(TripRow("1", S3, "t7")), Line(TripRow("3", BadDateCode, "t8")) >>
\* the data row's route id has no namespace prefix
TripsNoPrefix ==
    << TripsHeader, Line(<< <<"17">>, S1, "t9", "headsign", "short", "0", "block", "shape" >>) >>
\* the data row's service code has 12 characters
TripsShortCode == << TripsHeader, Line(TripRow("1", ShortCode, "t10")) >>
TripsFiles == {TripsA, TripsB, TripsShortRow, TripsBadCode, TripsNoPrefix, TripsShortCode}

StopRow(id, name, lat, lon) == << id, name, lat, lon, "0" >>
StopsHeader == Line(<< "stop_id", "stop_name", Malformed, Malformed, "location_type" >>)
StopsA ==
    << StopsHeader, Line(StopRow("s1", "Hlemmur", Num(64), Num(-21))),
       Line(StopRow("s2", "Mjodd", Num(64), Num(-22))) >>
\* the second data row has 4 fields
StopsShortRow ==
    << StopsHeader, Line(StopRow("s3", "Harpa", Num(64), Num(-21))),
       Line(SubSeq(StopRow("s4", "Grandi", Num(64), Num(-22)), 1, 4)) >>
\* the second data row's latitude is out of range
StopsBadLat ==
    << StopsHeader, Line(StopRow("s5", "Perlan", Num(64), Num(-21))),
       Line(StopRow("s6", "Nordurpoll", Num(95), Num(0))) >>
StopsFiles == {StopsA, StopsShortRow, StopsBadLat}

Catalog ==
    [routes |-> BusRoute_all_routes, services |-> BusService_all_services,
     trips |-> BusTrip_all_trips]

(***************************************************************************)
(* The schedule catalog's operations.                                      *)
(***************************************************************************)
\* bus.py:186-218  BusRoute.initialize() with trips.txt = lines
RouteInitialize(lines) ==
    /\ Len(loadLog) + Len(stopLog) < MaxLoads
    /\ LET r == InitializeRoutes(Catalog, lines)
       IN  /\ BusRoute_all_routes' = r.cat.routes
           /\ BusService_all_services' = r.cat.services
           /\ BusTrip_all_trips' = r.cat.trips
           /\ loadLog' = Append(loadLog, [lines |-> lines, err |-> r.err, before |-> Catalog])
    /\ query' = NoQuery
    /\ UNCHANGED << BusStop_all_stops, stopLog, daysUp >>
    /\ UNCHANGED cacheVars

\* bus.py:395-416  BusStop.initialize() with stops.txt = lines
StopInitialize(lines) ==
    /\ Len(loadLog) + Len(stopLog) < MaxLoads
    /\ LET r == ReadStops(BusStop_all_stops, lines, 1)
       IN  /\ BusStop_all_stops' = r.stops
           /\ stopLog' = Append(stopLog, [lines |-> lines, err |-> r.err,
                                          before |-> BusStop_all_stops])
    /\ UNCHANGED << BusRoute_all_routes, BusService_all_services, BusTrip_all_trips,
                    loadLog, query, daysUp >>
    /\ UNCHANGED cacheVars

\* bus.py:176-177  route.active_services(on_date) of a route of the catalog
QueryActive(route_id, on_date) ==
    /\ route_id \in DOMAIN BusRoute_all_routes
    /\ query' = [route |-> route_id, date |-> on_date, asked |-> TRUE,
                 raised |-> ActiveServicesRaises(Catalog, route_id, on_date),
                 res |-> IF ActiveServicesRaises(Catalog, route_id, on_date) THEN <<>>
                         ELSE ActiveServices(Catalog, route_id, on_date),
                 default |-> FALSE, called_on |-> Today]
    /\ UNCHANGED << BusRoute_all_routes, BusService_all_services, BusTrip_all_trips,
                    BusStop_all_stops, loadLog, stopLog, daysUp >>
    /\ UNCHANGED cacheVars

\* bus.py:176-177, 426-429  route.active_services() with on_date left out
QueryActiveDefault(route_id) ==
    /\ route_id \in DOMAIN BusRoute_all_routes
    /\ query' = [route |-> route_id, date |-> DefaultOnDate, asked |-> TRUE,
                 raised |-> ActiveServicesRaises(Catalog, route_id, DefaultOnDate),
                 res |-> IF ActiveServicesRaises(Catalog, route_id, DefaultOnDate) THEN <<>>
                         ELSE ActiveServices(Catalog, route_id, DefaultOnDate),
                 default |-> TRUE, called_on |-> Today]
    /\ UNCHANGED << BusRoute_all_routes, BusService_all_services, BusTrip_all_trips,
                    BusStop_all_stops, loadLog, stopLog, daysUp >>
    /\ UNCHANGED cacheVars

\* Midnight passes while the process keeps running.
DayPasses ==
    /\ daysUp < MaxDaysUp
    /\ daysUp' = daysUp + 1
    /\ UNCHANGED << BusRoute_all_routes, BusService_all_services, BusTrip_all_trips,
                    BusStop_all_stops, loadLog, stopLog, query >>
    /\ UNCHANGED cacheVars

CatalogNext ==
    \/ \E lines \in TripsFiles : RouteInitialize(lines)
    \/ \E lines \in StopsFiles : StopInitialize(lines)
    \/ \E r \in DOMAIN BusRoute_all_routes : \E d \in QueryDates : QueryActive(r, d)
    \/ \E r \in DOMAIN BusRoute_all_routes : QueryActiveDefault(r)
    \/ DayPasses

SpecCatalog == Init /\ [][CatalogNext]_vars

(***************************************************************************)
(* Claims about the schedule catalog (checked under SpecCatalog).          *)
(***************************************************************************)
\* The weekday of a date by Sakamoto's method, Monday = 0
RefWeekday(dt) ==
    LET t == <<0, 3, 2, 5, 0, 3, 5, 1, 4, 6, 2, 4>>
        y == IF dt[2] < 3 THEN dt[1] - 1 ELSE dt[1]
        sunday0 == (y + (y \div 4) - (y \div 100) + (y \div 400) + t[dt[2]] + dt[3]) % 7
    IN  (sunday0 + 6) % 7
RefDateKey(dt) == dt[1] * 10000 + dt[2] * 100 + dt[3]
IsWellFormed(sid) == \E w \in WellFormedCodes : CodeOf(w) = sid
WellFormedOf(sid) == CHOOSE w \in WellFormedCodes : CodeOf(w) = sid
\* d >= valid_from and weekdays[d.weekday()], read off the code's own date and mask
RefActive(sid, d) ==
    /\ RefDateKey(d) >= RefDateKey(WellFormedOf(sid).date)
    /\ WellFormedOf(sid).mask[RefWeekday(d) + 1] # "-"

\* C8: for every service decoded from a well-formed service code and every
\* date d, is_active_on_date(d) is true iff d >= valid_from and the weekday
\* mask (Monday first) has d's weekday set, so it is false before valid_from
\* whatever the mask says; and active_services(route, d) returns exactly the
\* services attached to the route for which that holds.
C8_ActiveIffFromAndWeekday ==
    /\ \A sid \in DOMAIN BusService_all_services : \A d \in QueryDates :
          IsWellFormed(sid) =>
              /\ BusService_all_services[sid].valid_from = WellFormedOf(sid).date
              /\ Len(BusService_all_services[sid].weekdays) = 7
              /\ IsActiveOnDate(BusService_all_services[sid], d) <=> RefActive(sid, d)
    /\ (query.asked /\ \A i \in 1..Len(BusRoute_all_routes[query.route]) :
                           IsWellFormed(BusRoute_all_routes[query.route][i]))
          => /\ ~query.raised
             /\ query.res = SelectSeq(BusRoute_all_routes[query.route],
                                      LAMBDA sid : RefActive(sid, query.date))

\* C8 witness: route 1 offers S1 (valid from Monday 2024-01-15, Mondays set)
\* and S3; asked about Monday 2024-01-08, active_services returned S3 alone.
C8_Witness ==
    /\ query.asked
    /\ query.route = "1"
    /\ query.date = <<2024, 1, 8>>
    /\ BusRoute_all_routes["1"] = <<S1, S3>>
    /\ query.res = <<S3>>

\* C9: a load that meets a row with the wrong number of fields fails and
\* leaves no partial catalog state: no registry holds an entry made from
\* the rows before the malformed one.
C9_FailedLoadLeavesNothing ==
    /\ (loadLog # <<>> /\ loadLog[Len(loadLog)].err = "AssertionError")
          => /\ BusRoute_all_routes = EmptyDict
             /\ BusService_all_services = loadLog[Len(loadLog)].before.services
             /\ BusTrip_all_trips = loadLog[Len(loadLog)].before.trips
    /\ (stopLog # <<>> /\ stopLog[Len(stopLog)].lines = StopsShortRow)
          => BusStop_all_stops = stopLog[Len(stopLog)].before

\* C10: a reload discards the previous catalog: after load(A) and then
\* load(B) the routes, their services and the services' trips are those of
\* load(B) on an empty catalog.
C10_ReloadEqualsFreshLoad ==
    (Len(loadLog) = 2 /\ loadLog[1].err = "none" /\ loadLog[2].err = "none")
        => Catalog = InitializeRoutes(EmptyCatalog, loadLog[2].lines).cat

\* C14: BusService.get fails for every malformed service code (non-numeric
\* date fields, wrong length) and then registers no service, so that every
\* registered service has a weekday mask of exactly 7 entries and
\* is_active_on_date never fails on a registered service.
C14_MalformedCodeIsRejected ==
    /\ \A sid \in DOMAIN BusService_all_services :
          /\ IsWellFormed(sid)
          /\ Len(BusService_all_services[sid].weekdays) = 7
          /\ \A d \in QueryDates : ~IsActiveOnDateRaises(BusService_all_services[sid], d)
    /\ \A i \in 1..Len(loadLog) :
          loadLog[i].lines \in {TripsBadCode, TripsShortCode} => loadLog[i].err # "none"
    /\ query.asked => ~query.raised

\* C19: active_services() called without a date evaluates the services
\* against the calendar day of the call: it returns the services of the
\* route that are active on that day.
C19_DefaultDateIsDayOfCall ==
    (query.asked /\ query.default
          /\ ~ActiveServicesRaises(Catalog, query.route, query.called_on))
        => /\ ~query.raised
           /\ query.res = ActiveServices(Catalog, query.route, query.called_on)

====
